---- MODULE Spec2Model ----
(***************************************************************************)
(* Model of cluster-endpoints/src/grpc_subscription.rs:                    *)
(*   from_grpc_block_update   - wire block update -> ProducedBlock         *)
(*   create_grpc_subscription - wiring of the endpoint streams              *)
(*                                                                         *)
(* Option<T> is a sequence of length at most one: <<>> is None and <<x>>   *)
(* is Some(x).  A call either returns a value or panics; both outcomes are *)
(* records with a kind field.                                               *)
(***************************************************************************)
EXTENDS Integers, Sequences, FiniteSets, TLC

VARIABLES
    overflow_checks,   \* build profile: TRUE = overflow-checked (debug), FALSE = wrapping (release)
    block,             \* Option<SubscribeUpdateBlock>: argument of the last decoder call
    commitment_config, \* Option<CommitmentConfig>: argument of the last decoder call
    result,            \* Option<outcome> of the last decoder call
    streamers,         \* Option<EndpointStreaming> returned by create_grpc_subscription
    endpoint_tasks,    \* Vec<AnyhowJoinHandle> returned by create_grpc_subscription
    spawned,           \* every task handle the collaborators created
    compose_args,      \* Option<arguments> of the create_grpc_subscription call
    channels,          \* the broadcast channels, by name
    receivers          \* the consumers' receivers, by channel and consumer

decoderVars == <<overflow_checks, block, commitment_config, result>>
composerVars == <<streamers, endpoint_tasks, spawned, compose_args, channels, receivers>>
vars == <<overflow_checks, block, commitment_config, result,
          streamers, endpoint_tasks, spawned, compose_args, channels, receivers>>

-----------------------------------------------------------------------------
(* Option, outcomes, iterators *)

None == <<>>
Some(x) == <<x>>
IsSome(o) == o # <<>>
Unwrap(o) == o[1]
\* Option::or
OrElse(a, b) == IF IsSome(a) THEN a ELSE b

Ok(v) == [kind |-> "ok", value |-> v, at |-> ""]
Panic(where) == [kind |-> "panic", value |-> None, at |-> where]
IsPanic(r) == r.kind = "panic"

RECURSIVE SeqFilter(_, _)
SeqFilter(s, keep) ==
    IF s = <<>> THEN <<>>
    ELSE IF keep[1] THEN <<Head(s)>> \o SeqFilter(Tail(s), Tail(keep))
    ELSE SeqFilter(Tail(s), Tail(keep))

Range(s) == {s[i] : i \in 1..Len(s)}

-----------------------------------------------------------------------------
(* Integer widths.  A u64 is kept as two limbs, hi * 2^16 + lo, so that    *)
(* products above 2^31 are exact.                                           *)

Limb == 256 * 256
U8Width == 256

\* `x as u8`
AsU8(x) == x % U8Width

\* a u64 from a natural below 2^31
U64(n) == [hi |-> n \div Limb, lo |-> n % Limb]

\* the exact product units * 1000, for units below 2^31
Mul1000(units) ==
    LET low == (units % Limb) * 1000
    IN  [hi |-> (units \div Limb) * 1000 + (low \div Limb), lo |-> low % Limb]

\* whether a value fits 32 bits
FitsU32(w) == w.hi < Limb
\* the value reduced modulo 2^32
WrapU32(w) == [hi |-> w.hi % Limb, lo |-> w.lo]

\* truncating division of a limb pair by 0 < d < 2^15
DivWide(w, d) == [hi |-> w.hi \div d, lo |-> ((w.hi % d) * Limb + w.lo) \div d]

-----------------------------------------------------------------------------
(* Program ids and byte-array conversions *)

SystemProgramId == "11111111111111111111111111111111"
ComputeBudgetId == "ComputeBudget111111111111111111111111111111"
VoteProgramId == "Vote111111111111111111111111111111111111111"
BpfLoaderUpgradeableId == "BPFLoaderUpgradeab1e11111111111111111111111"

\* Pubkey::default(): the all-zero key, which is the system program id
DefaultPubkey == SystemProgramId

PUBKEY_BYTES == 32
SIGNATURE_BYTES == 64

\* key.try_into().unwrap_or(Pubkey::default().to_bytes())
PubkeyFromBytes(key) == IF key.len = PUBKEY_BYTES THEN key.bytes ELSE DefaultPubkey

\* Signature::try_from(sig) succeeds on exactly 64 bytes
SignatureOk(sig) == sig.len = SIGNATURE_BYTES

\* signatures that survive the filter_map, in order
ValidSignatures(sigs) == SeqFilter(sigs, [i \in 1..Len(sigs) |-> SignatureOk(sigs[i])])

\* Signature::to_string(): base58 text of the 64 bytes
SignatureToString(sig) == <<"base58", sig.bytes>>

-----------------------------------------------------------------------------
(* Instruction data decoders *)

\* try_from_slice_unchecked::<ComputeBudgetInstruction>(data) is Ok(variant)
DecodesAs(data, variant) == data.tag = variant

\* limited_deserialize::<VoteInstruction>(data).map(is_simple_vote).unwrap_or(false)
IsSimpleVote(data) == data.tag \in {"Vote", "UpdateVoteState"}

-----------------------------------------------------------------------------
(* The reconstructed v0 message and the predicates the decoder asks of it *)

\* MessageHeader { .. as u8 }
NarrowHeader(header) ==
    [num_required_signatures |-> AsU8(header.num_required_signatures),
     num_readonly_signed_accounts |-> AsU8(header.num_readonly_signed_accounts),
     num_readonly_unsigned_accounts |-> AsU8(header.num_readonly_unsigned_accounts)]

\* account_keys: every raw key converted, malformed ones replaced by the default key
AccountKeys(raw) == [i \in 1..Len(raw) |-> PubkeyFromBytes(raw[i])]

\* CompiledInstruction { program_id_index: ix.program_id_index as u8, accounts, data }
CompiledInstruction(ix) ==
    [program_id_index |-> AsU8(ix.program_id_index), accounts |-> ix.accounts, data |-> ix.data]

\* MessageAddressTableLookup with the same fallback for the table key
AddressTableLookup(table) ==
    [account_key |-> PubkeyFromBytes(table.account_key),
     writable_indexes |-> table.writable_indexes,
     readonly_indexes |-> table.readonly_indexes]

\* Hash::new(&message.recent_blockhash) unwraps a conversion to [u8; 32]
HashOk(bytes) == bytes.len = PUBKEY_BYTES

\* VersionedMessage::V0(v0::Message { .. })
BuildMessage(header, message) ==
    [header |-> NarrowHeader(header),
     account_keys |-> AccountKeys(message.account_keys),
     recent_blockhash |-> message.recent_blockhash.bytes,
     instructions |-> [k \in 1..Len(message.instructions) |->
                          CompiledInstruction(message.instructions[k])],
     address_table_lookups |-> [k \in 1..Len(message.address_table_lookups) |->
                          AddressTableLookup(message.address_table_lookups[k])]]

\* v0::Message::is_writable_index for a static key (0-based key_index below the key count)
is_writable_index(message, key_index) ==
    LET num_account_keys == Len(message.account_keys)
        num_signed_accounts == message.header.num_required_signatures
        Sub(a, b) == IF a >= b THEN a - b ELSE 0   \* saturating_sub
    IN  IF key_index >= num_signed_accounts
        THEN key_index - num_signed_accounts
                < Sub(Sub(num_account_keys, num_signed_accounts),
                      message.header.num_readonly_unsigned_accounts)
        ELSE key_index < Sub(num_signed_accounts, message.header.num_readonly_signed_accounts)

\* is_builtin_key_or_sysvar for the keys of the model
is_builtin_key_or_sysvar(key) ==
    key \in {SystemProgramId, VoteProgramId, BpfLoaderUpgradeableId}

is_key_called_as_program(message, key_index) ==
    \E k \in 1..Len(message.instructions) :
        message.instructions[k].program_id_index = key_index

is_upgradeable_loader_present(message) ==
    \E k \in 1..Len(message.account_keys) : message.account_keys[k] = BpfLoaderUpgradeableId

\* VersionedMessage::is_maybe_writable(index)
is_maybe_writable(message, key_index) ==
    /\ is_writable_index(message, key_index)
    /\ ~is_builtin_key_or_sysvar(message.account_keys[key_index + 1])
    /\ ~(is_key_called_as_program(message, key_index) /\ ~is_upgradeable_loader_present(message))

\* account_keys.iter().enumerate().filter(|(index, _)| !message.is_maybe_writable(index))
readable_accounts(message) ==
    SeqFilter(message.account_keys,
              [k \in 1..Len(message.account_keys) |-> ~is_maybe_writable(message, k - 1)])

\* account_keys.iter().enumerate().filter(|(index, _)| message.is_maybe_writable(index))
writable_accounts(message) ==
    SeqFilter(message.account_keys,
              [k \in 1..Len(message.account_keys) |-> is_maybe_writable(message, k - 1)])

-----------------------------------------------------------------------------
(* Compute-budget and vote scans.  Each is a find_map (or any) over the    *)
(* instructions in order; i.program_id(keys) indexes the key list and      *)
(* panics on an index past its end.                                         *)

\* the closure of one scan applied to instruction i: Ok(None) to go on, Ok(Some(v)) to stop
ScanClosure(which, i, keys, checks) ==
    LET program_id == keys[i.program_id_index + 1]
        forBudget == program_id = ComputeBudgetId
    IN  CASE which = "legacy" ->
               IF forBudget /\ DecodesAs(i.data, "RequestUnitsDeprecated")
               THEN IF i.data.additional_fee > 0
                    THEN IF checks /\ ~FitsU32(Mul1000(i.data.units))
                         THEN Panic("attempt to multiply with overflow")
                         ELSE Ok(Some([units |-> i.data.units,
                                       fee |-> Some(DivWide(WrapU32(Mul1000(i.data.units)),
                                                            i.data.additional_fee))]))
                    ELSE Ok(Some([units |-> i.data.units, fee |-> None]))
               ELSE Ok(None)
          [] which = "limit" ->
               IF forBudget /\ DecodesAs(i.data, "SetComputeUnitLimit")
               THEN Ok(Some(i.data.value)) ELSE Ok(None)
          [] which = "price" ->
               IF forBudget /\ DecodesAs(i.data, "SetComputeUnitPrice")
               THEN Ok(Some(U64(i.data.value))) ELSE Ok(None)
          [] which = "vote" ->
               IF program_id = VoteProgramId /\ IsSimpleVote(i.data)
               THEN Ok(Some(TRUE)) ELSE Ok(None)

RECURSIVE FindMap(_, _, _, _, _)
FindMap(which, instructions, keys, checks, k) ==
    IF k > Len(instructions) THEN Ok(None)
    ELSE IF instructions[k].program_id_index >= Len(keys)
    THEN Panic("index out of bounds: program_id")
    ELSE LET m == ScanClosure(which, instructions[k], keys, checks)
         IN  IF IsPanic(m) \/ IsSome(m.value) THEN m
             ELSE FindMap(which, instructions, keys, checks, k + 1)

\* legacy_compute_budget: Option<(u32, Option<u64>)>
legacy_compute_budget(message, checks) ==
    FindMap("legacy", message.instructions, message.account_keys, checks, 1)

\* legacy_compute_budget.map(|x| x.0)
legacy_cu_requested(legacy) == IF IsSome(legacy) THEN Some(Unwrap(legacy).units) ELSE None

\* legacy_compute_budget.map(|x| x.1).unwrap_or(None)
legacy_prioritization_fees(legacy) == IF IsSome(legacy) THEN Unwrap(legacy).fee ELSE None

\* cu_requested before the .or(legacy_cu_requested)
set_compute_unit_limit(message) ==
    FindMap("limit", message.instructions, message.account_keys, FALSE, 1)

\* prioritization_fees before the .or(legacy_prioritization_fees)
set_compute_unit_price(message) ==
    FindMap("price", message.instructions, message.account_keys, FALSE, 1)

\* .or(legacy_cu_requested)
cu_requested(limit, legacy) == OrElse(limit, legacy_cu_requested(legacy))

\* the precedence reversed: legacy_prioritization_fees.or(price)
prioritization_fees_legacy_first(price, legacy) ==
    OrElse(legacy_prioritization_fees(legacy), price)

\* .or(legacy_prioritization_fees)
prioritization_fees(price, legacy) == OrElse(price, legacy_prioritization_fees(legacy))

\* message.instructions().iter().any(..)
is_vote_transaction(message) ==
    FindMap("vote", message.instructions, message.account_keys, FALSE, 1)

-----------------------------------------------------------------------------
(* from_grpc_block_update *)

\* bincode::deserialize::<TransactionError>(&x.err) succeeds
TransactionErrorOk(err) == err.valid

\* the filter_map closure on one transaction envelope:
\* Ok(None) = dropped, Ok(Some(info)) = kept, or a panic
DecodeTransaction(tx, blockhash, checks) ==
    IF tx.meta = None \/ tx.transaction = None THEN Ok(None)
    ELSE IF Unwrap(tx.transaction).message = None THEN Ok(None)
    ELSE IF Unwrap(Unwrap(tx.transaction).message).header = None THEN Ok(None)
    ELSE
    LET meta == Unwrap(tx.meta)
        transaction == Unwrap(tx.transaction)
        message == Unwrap(transaction.message)
        header == Unwrap(message.header)
        signatures == ValidSignatures(transaction.signatures)
    IN  IF IsSome(meta.err) /\ ~TransactionErrorOk(Unwrap(meta.err))
        THEN Panic("TransactionError should be deserialized")
        ELSE IF signatures = <<>>
        THEN Panic("index out of bounds: signatures[0]")
        ELSE IF ~HashOk(message.recent_blockhash)
        THEN Panic("Hash::new: wrong length")
        ELSE
        LET msg == BuildMessage(header, message)
            legacy == legacy_compute_budget(msg, checks)
            limit == set_compute_unit_limit(msg)
            price == set_compute_unit_price(msg)
            vote == is_vote_transaction(msg)
        IN  IF IsPanic(legacy) THEN legacy
            ELSE IF IsPanic(limit) THEN limit
            ELSE IF IsPanic(price) THEN price
            ELSE IF IsPanic(vote) THEN vote
            ELSE Ok(Some(
              [signature |-> SignatureToString(signatures[1]),
               is_vote |-> IsSome(vote.value),
               err |-> IF IsSome(meta.err) THEN Some(Unwrap(meta.err).code) ELSE None,
               cu_requested |-> cu_requested(limit.value, legacy.value),
               prioritization_fees |-> prioritization_fees(price.value, legacy.value),
               cu_consumed |-> meta.compute_units_consumed,
               recent_blockhash |-> msg.recent_blockhash,
               message |-> <<"base64", msg>>,
               readable_accounts |-> readable_accounts(msg),
               writable_accounts |-> writable_accounts(msg),
               address_lookup_tables |-> msg.address_table_lookups]))

\* block.transactions.into_iter().filter_map(..).collect(): the first panic ends the call
RECURSIVE DecodeTransactions(_, _, _)
DecodeTransactions(txs, blockhash, checks) ==
    IF txs = <<>> THEN Ok(<<>>)
    ELSE LET first == DecodeTransaction(Head(txs), blockhash, checks)
         IN  IF IsPanic(first) THEN first
             ELSE LET rest == DecodeTransactions(Tail(txs), blockhash, checks)
                  IN  IF IsPanic(rest) THEN rest ELSE Ok(first.value \o rest.value)

\* reward.reward_type(): the wire integer as the enum, an unknown integer as Unspecified;
\* then Unspecified => None and the four others one to one
RewardTypeOf(wire) ==
    CASE wire = 1 -> Some("Fee")
      [] wire = 2 -> Some("Rent")
      [] wire = 3 -> Some("Staking")
      [] wire = 4 -> Some("Voting")
      [] OTHER -> None

DecodeReward(reward) ==
    [pubkey |-> reward.pubkey,
     lamports |-> reward.lamports,
     post_balance |-> reward.post_balance,
     reward_type |-> RewardTypeOf(reward.reward_type),
     commission |-> None]

\* block.rewards.map(|rewards| rewards.rewards.into_iter().map(..).collect_vec())
DecodeRewards(rewards) ==
    IF rewards = None THEN None
    ELSE Some([k \in 1..Len(Unwrap(rewards).rewards) |-> DecodeReward(Unwrap(rewards).rewards[k])])

\* the first reward taken without looking at its type
FindFee_any_type(rewards) == IF rewards = <<>> THEN None ELSE Some(Head(rewards))

RECURSIVE FindFee(_)
\* rewards.iter().find(|reward| Some(RewardType::Fee) == reward.reward_type)
FindFee(rewards) ==
    IF rewards = <<>> THEN None
    ELSE IF Head(rewards).reward_type = Some("Fee") THEN Some(Head(rewards))
    ELSE FindFee(Tail(rewards))

\* leader_id
leader_id(rewards) ==
    IF IsSome(rewards)
    THEN (IF IsSome(FindFee(Unwrap(rewards)))
          THEN Some(Unwrap(FindFee(Unwrap(rewards))).pubkey) ELSE None)
    ELSE None

\* the whole call: Ok(<<ProducedBlock>>) or a panic
from_grpc_block_update(b, commitment, checks) ==
    LET txs == DecodeTransactions(b.transactions, b.blockhash, checks)
        rewards == DecodeRewards(b.rewards)
    IN  IF IsPanic(txs) THEN txs
        ELSE IF b.block_height = None
        THEN Panic("unwrap on None: block_height")
        ELSE IF b.block_time = None
        THEN Panic("unwrap on None: block_time")
        ELSE Ok(<<[transactions |-> txs.value,
                   block_height |-> Unwrap(b.block_height).block_height,
                   block_time |-> Unwrap(b.block_time).timestamp,
                   blockhash |-> b.blockhash,
                   previous_blockhash |-> b.parent_blockhash,
                   commitment_config |-> commitment,
                   leader_id |-> leader_id(rewards),
                   parent_slot |-> b.parent_slot,
                   slot |-> b.slot,
                   rewards |-> rewards]>>)

-----------------------------------------------------------------------------
(* Wire values the decoder is run on *)

MaxTxs == 2
MaxSigs == 2
MaxRewards == 3
MaxKeys == 3
MaxInstrs == 2

BoundedSeq(S, n) == UNION {[1..k -> S] : k \in 0..n}

Sig(id) == [len |-> SIGNATURE_BYTES, bytes |-> id]
ShortSig == [len |-> SIGNATURE_BYTES - 1, bytes |-> "short"]
Key(id) == [len |-> PUBKEY_BYTES, bytes |-> id]
ShortKey == [len |-> PUBKEY_BYTES - 1, bytes |-> "short"]
ShortHash == [len |-> PUBKEY_BYTES - 1, bytes |-> "short"]

Data(tag, units, additional_fee, value) ==
    [tag |-> tag, units |-> units, additional_fee |-> additional_fee, value |-> value]
Instr(index, data) == [program_id_index |-> index, accounts |-> <<>>, data |-> data]
Header(s, rs, ru) ==
    [num_required_signatures |-> s,
     num_readonly_signed_accounts |-> rs,
     num_readonly_unsigned_accounts |-> ru]
Lookup(key) == [account_key |-> key, writable_indexes |-> <<0>>, readonly_indexes |-> <<1>>]

Message(header, keys, instructions, lookups, hash) ==
    [header |-> header, account_keys |-> keys, recent_blockhash |-> hash,
     instructions |-> instructions, address_table_lookups |-> lookups]
Meta(err) == [err |-> err, compute_units_consumed |-> Some(150)]
Envelope(meta, transaction) == [meta |-> meta, transaction |-> transaction]
Transaction(signatures, message) == [signatures |-> signatures, message |-> message]

Update(height, time, rewards, transactions) ==
    [slot |-> 11, parent_slot |-> 10, blockhash |-> "hashB", parent_blockhash |-> "hashA",
     block_height |-> height, block_time |-> time,
     rewards |-> rewards, transactions |-> transactions]

Commitments == {"confirmed", "finalized"}
Heights == {None, Some([block_height |-> 7])}
Times == {None, Some([timestamp |-> 1700000000])}
Reward(pubkey, type) ==
    [pubkey |-> pubkey, lamports |-> 5000, post_balance |-> 100000, reward_type |-> type]

\* a message every field of which is well formed
PlainMessage ==
    Message(Some(Header(1, 0, 1)), <<Key("K1"), Key("K2")>>, <<>>, <<>>, Key("hashR"))

\* envelopes that vary the signatures and the error of a complete transaction,
\* and envelopes with one of the four optional parts absent
SigLists == BoundedSeq({Sig("sigA"), Sig("sigB"), ShortSig}, MaxSigs)
Errors == {None, Some([valid |-> TRUE, code |-> "AccountInUse"]),
           Some([valid |-> FALSE, code |-> "garbage"])}
CompleteEnvelopes ==
    {Envelope(Some(Meta(e)), Some(Transaction(sigs, Some(PlainMessage)))) :
        e \in Errors, sigs \in SigLists}
    \cup {Envelope(Some(Meta(None)),
                   Some(Transaction(<<Sig("sigA")>>,
                        Some(Message(Some(Header(1, 0, 1)), <<Key("K1")>>, <<>>,
                                     <<Lookup(Key("T1")), Lookup(ShortKey)>>, ShortHash)))))}
IncompleteEnvelopes ==
    {Envelope(m, t) :
        m \in {None},
        t \in {Some(Transaction(sigs, Some(PlainMessage))) : sigs \in {<<>>, <<Sig("sigC")>>}}}
    \cup {Envelope(Some(Meta(None)), None)}
    \cup {Envelope(Some(Meta(None)), Some(Transaction(sigs, None))) :
             sigs \in {<<>>, <<Sig("sigC")>>}}
    \cup {Envelope(Some(Meta(None)),
                   Some(Transaction(sigs, Some([PlainMessage EXCEPT !.header = None])))) :
             sigs \in {<<>>, <<Sig("sigC")>>}}

BlockUpdates ==
    {Update(h, t, r, txs) :
        h \in Heights, t \in Times,
        r \in {None, Some([rewards |-> <<Reward("V1", 1)>>])},
        txs \in BoundedSeq(CompleteEnvelopes \cup IncompleteEnvelopes, MaxTxs)}

\* block updates that vary the rewards
RewardUpdates ==
    {Update(Some([block_height |-> 7]), Some([timestamp |-> 1700000000]), r, <<>>) :
        r \in {None} \cup
              {Some([rewards |-> rs]) :
                  rs \in BoundedSeq({Reward(k, t) : k \in {"V1", "V2"}, t \in 0..5}, MaxRewards)}}

OneTx(message) ==
    Update(Some([block_height |-> 7]), Some([timestamp |-> 1700000000]), None,
           <<Envelope(Some(Meta(None)), Some(Transaction(<<Sig("sigA")>>, Some(message))))>>)

\* block updates of one transaction that vary the header and the account keys
WireCounts == {0, 1, 2, 257}
RawKeys == {Key("K1"), Key("K2"), Key(ComputeBudgetId), Key(BpfLoaderUpgradeableId), ShortKey}
AccountUpdates ==
    {OneTx(Message(Some(Header(s, rs, ru)), keys, instrs, <<>>, Key("hashR"))) :
        s \in WireCounts, rs \in WireCounts, ru \in WireCounts,
        keys \in BoundedSeq(RawKeys, MaxKeys),
        instrs \in {<<>>} \cup {<<Instr(i, Data("Transfer", 0, 0, 0))>> : i \in {0, 1, 258}}}

\* block updates of one transaction that vary the instructions
BudgetData ==
    {Data("RequestUnitsDeprecated", u, f, 0) : u \in {1000, 4294967, 4294968}, f \in {0, 500}}
    \cup {Data("SetComputeUnitLimit", 0, 0, 200000),
          Data("SetComputeUnitPrice", 0, 0, 7),
          Data("SetComputeUnitPrice", 0, 0, 9),
          Data("RequestHeapFrame", 0, 0, 0)}
BudgetUpdates ==
    {OneTx(Message(Some(Header(1, 0, 1)), <<Key("K1"), Key(ComputeBudgetId)>>,
                   instrs, <<>>, Key("hashR"))) :
        instrs \in BoundedSeq({Instr(i, d) : i \in 0..2, d \in BudgetData}, MaxInstrs)}

-----------------------------------------------------------------------------
(* The decoder as a state machine: a caller holds a block update and calls  *)
(* from_grpc_block_update on it once.                                       *)

ComposerIdle ==
    /\ streamers = None
    /\ endpoint_tasks = <<>>
    /\ spawned = {}
    /\ compose_args = None
    /\ channels = <<>>
    /\ receivers = <<>>

DecoderInit(updates) ==
    /\ overflow_checks \in BOOLEAN
    /\ block \in {Some(b) : b \in updates}
    /\ commitment_config \in {Some(c) : c \in Commitments}
    /\ result = None
    /\ ComposerIdle

FromGrpcBlockUpdate ==
    /\ IsSome(block)
    /\ result = None
    /\ result' = Some(from_grpc_block_update(Unwrap(block), Unwrap(commitment_config),
                                             overflow_checks))
    /\ UNCHANGED <<overflow_checks, block, commitment_config>>
    /\ UNCHANGED composerVars

Init == DecoderInit(BlockUpdates)
InitRewards == DecoderInit(RewardUpdates)
InitAccounts == DecoderInit(AccountUpdates)
InitBudget == DecoderInit(BudgetUpdates)

Next == FromGrpcBlockUpdate

Spec == Init /\ [][Next]_vars
SpecRewards == InitRewards /\ [][Next]_vars
SpecAccounts == InitAccounts /\ [][Next]_vars
SpecBudget == InitBudget /\ [][Next]_vars

-----------------------------------------------------------------------------
(* create_grpc_subscription and the broadcast channels it creates *)

\* tokio::sync::broadcast::channel(10), for both channels
BROADCAST_CAPACITY == 10

MaxPublished == 11
MaxSources == 3
MaxFilters == 2
ChannelNames == {"cluster_info", "vote_account"}
Subscribers == [cluster_info |-> {"c1", "c2"}, vote_account |-> {"c3"}]

RECURSIVE NextPowerOfTwo(_, _)
NextPowerOfTwo(n, p) == IF p >= n THEN p ELSE NextPowerOfTwo(n, 2 * p)

\* the number of values a channel created with `capacity` retains: at least
\* `capacity`; the library may round it up to the next power of two
Retained(capacity, rounding) == IF rounding THEN NextPowerOfTwo(capacity, 1) ELSE capacity

\* a fresh channel: nothing sent, nothing buffered
NewChannel(retained) == [retained |-> retained, sent |-> 0, buffer |-> <<>>]

\* a receiver that starts at the channel's current tail
NewReceiver(channel) == [start |-> channel.sent, next |-> channel.sent, log |-> <<>>]

\* Sender::send: never waits; the oldest value is overwritten once the buffer is full
Send(channel, value) ==
    [channel EXCEPT
        !.sent = @ + 1,
        !.buffer = IF Len(@) < channel.retained THEN Append(@, value)
                   ELSE Append(Tail(@), value)]

\* the positions still buffered are Oldest + 1 .. sent
Oldest(channel) == channel.sent - Len(channel.buffer)

\* Receiver::recv has a value or a lag to report
RecvReady(channel, r) == r.next < channel.sent

\* Receiver::recv: Err(Lagged(n)) when the next value was overwritten, the cursor
\* moving to the oldest value kept; the next value otherwise
Recv(channel, r) ==
    IF r.next < Oldest(channel)
    THEN [r EXCEPT !.next = Oldest(channel),
                   !.log = Append(@, <<"Lagged", Oldest(channel) - r.next>>)]
    ELSE [r EXCEPT !.next = @ + 1,
                   !.log = Append(@, <<"Item", channel.buffer[r.next - Oldest(channel) + 1]>>)]

\* arguments of the call: Vec<GrpcSourceConfig> and AccountFilters (a Vec)
SourceLists == BoundedSeq({"sourceA", "sourceB"}, MaxSources)
FilterLists == BoundedSeq({"filter1", "filter2"}, MaxFilters)
\* the arguments under which the channels' traffic is explored
StartupSources == {<<"sourceA", "sourceB">>}
StartupFilters == {<<>>}

Task(name, args) == [name |-> name, args |-> args]

\* a channel created with capacity 1
cluster_info_channel_capacity_one(rounding) == NewChannel(Retained(1, rounding))

\* let (cluster_info_sx, cluster_info_notifier) = tokio::sync::broadcast::channel(10)
cluster_info_channel(rounding) == NewChannel(Retained(BROADCAST_CAPACITY, rounding))
\* let (va_sx, vote_account_notifier) = tokio::sync::broadcast::channel(10)
vote_account_channel(rounding) == NewChannel(Retained(BROADCAST_CAPACITY, rounding))

\* the handles of the two multiplexers and the two pollers, in the order of the vec!
common_tasks(grpc_sources) ==
    <<Task("multiplex_processed_slots", <<grpc_sources>>),
      Task("multiplex_blocks", <<grpc_sources>>),
      Task("poll_cluster_info", <<"cluster_info">>),
      Task("poll_vote_accounts", <<"vote_account">>)>>

\* create_grpc_account_streaming(grpc_sources, accounts_filter)
account_jh(grpc_sources, accounts_filter) ==
    Task("account_streaming", <<grpc_sources, accounts_filter>>)

\* every task the collaborators were asked for during the call
collaborator_tasks(grpc_sources, accounts_filter) ==
    Range(common_tasks(grpc_sources))
        \cup (IF accounts_filter # <<>> THEN {account_jh(grpc_sources, accounts_filter)} ELSE {})

\* the EndpointStreaming of either branch
endpoint_streaming(accounts_filter) ==
    [blocks_notifier |-> "multiplex_blocks",
     slot_notifier |-> "multiplex_processed_slots",
     cluster_info_notifier |-> "cluster_info",
     vote_account_notifier |-> "vote_account",
     processed_account_stream |->
        IF accounts_filter # <<>> THEN Some("account_streaming") ELSE None]

\* the account task left out of the returned list
returned_tasks_without_account(grpc_sources, accounts_filter) == common_tasks(grpc_sources)

\* the endpoint_tasks vec! of either branch
returned_tasks(grpc_sources, accounts_filter) ==
    IF accounts_filter # <<>>
    THEN Append(common_tasks(grpc_sources), account_jh(grpc_sources, accounts_filter))
    ELSE common_tasks(grpc_sources)

\* the whole of create_grpc_subscription, called once at startup
CreateGrpcSubscription(source_lists, filter_lists) ==
    /\ streamers = None
    /\ block = None
    /\ \E grpc_sources \in source_lists, accounts_filter \in filter_lists, rounding \in BOOLEAN :
        /\ compose_args' = Some([grpc_sources |-> grpc_sources,
                                 accounts_filter |-> accounts_filter])
        /\ channels' = [cluster_info |-> cluster_info_channel(rounding),
                        vote_account |-> vote_account_channel(rounding)]
        /\ receivers' = [ch \in ChannelNames |-> [c \in Subscribers[ch] |-> None]]
        /\ spawned' = collaborator_tasks(grpc_sources, accounts_filter)
        /\ streamers' = Some(endpoint_streaming(accounts_filter))
        /\ endpoint_tasks' = returned_tasks(grpc_sources, accounts_filter)
    /\ UNCHANGED decoderVars

TotalSent == channels["cluster_info"].sent + channels["vote_account"].sent

\* a consumer takes a receiver of its own from the bundle's notifier
Subscribe(ch, c) ==
    /\ IsSome(streamers)
    /\ receivers[ch][c] = None
    /\ receivers' = [receivers EXCEPT ![ch][c] = Some(NewReceiver(channels[ch]))]
    /\ UNCHANGED <<streamers, endpoint_tasks, spawned, compose_args, channels>>
    /\ UNCHANGED decoderVars

\* the polling task of channel ch publishes its next snapshot
Publish(ch) ==
    /\ IsSome(streamers)
    /\ TotalSent < MaxPublished
    /\ channels' = [channels EXCEPT ![ch] = Send(@, channels[ch].sent + 1)]
    /\ UNCHANGED <<streamers, endpoint_tasks, spawned, compose_args, receivers>>
    /\ UNCHANGED decoderVars

\* consumer c receives from channel ch
Receive(ch, c) ==
    /\ IsSome(streamers)
    /\ IsSome(receivers[ch][c])
    /\ RecvReady(channels[ch], Unwrap(receivers[ch][c]))
    /\ receivers' = [receivers EXCEPT
                        ![ch][c] = Some(Recv(channels[ch], Unwrap(receivers[ch][c])))]
    /\ UNCHANGED <<streamers, endpoint_tasks, spawned, compose_args, channels>>
    /\ UNCHANGED decoderVars

InitCompose ==
    /\ overflow_checks = FALSE
    /\ block = None
    /\ commitment_config = None
    /\ result = None
    /\ ComposerIdle

NextCompose == CreateGrpcSubscription(SourceLists, FilterLists)

NextBroadcast ==
    \/ CreateGrpcSubscription(StartupSources, StartupFilters)
    \/ \E ch \in ChannelNames : Publish(ch)
    \/ \E ch \in ChannelNames : \E c \in Subscribers[ch] : Subscribe(ch, c)
    \/ \E ch \in ChannelNames : \E c \in Subscribers[ch] : Receive(ch, c)

SpecCompose == InitCompose /\ [][NextCompose]_vars
SpecBroadcast == InitCompose /\ [][NextBroadcast]_vars

-----------------------------------------------------------------------------
(* What a state shows of the decoder call *)

Called == IsSome(result)
Outcome == Unwrap(result)
Input == Unwrap(block)
Returned == Called /\ Outcome.kind = "ok"
Produced == Outcome.value[1]

\* an error value handed back to the caller (Err(..) of a Result)
ReturnsError(o) == o.kind = "err"

Min(S) == CHOOSE x \in S : \A y \in S : x <= y

HeightAndTime(b) == IsSome(b.block_height) /\ IsSome(b.block_time)

\* metadata, inner transaction, message and message header all present
Complete(tx) ==
    /\ IsSome(tx.meta)
    /\ IsSome(tx.transaction)
    /\ IsSome(Unwrap(tx.transaction).message)
    /\ IsSome(Unwrap(Unwrap(tx.transaction).message).header)

CompleteEnvelopesOf(b) ==
    SeqFilter(b.transactions, [k \in 1..Len(b.transactions) |-> Complete(b.transactions[k])])

WireSignatures(tx) == Unwrap(tx.transaction).signatures
WireMessage(tx) == Unwrap(Unwrap(tx.transaction).message)

\* the error encoding and the recent blockhash of every complete envelope are well formed
ErrorsAndHashesWellFormed(b) ==
    \A k \in 1..Len(b.transactions) :
        Complete(b.transactions[k]) =>
            /\ (Unwrap(b.transactions[k].meta).err = None
                    \/ Unwrap(Unwrap(b.transactions[k].meta).err).valid)
            /\ WireMessage(b.transactions[k]).recent_blockhash.len = PUBKEY_BYTES

-----------------------------------------------------------------------------
(* C1 *)

\* C1: a block update whose block_height wrapper or block_time wrapper is absent ends in
\* an error result returned to the caller, whatever its transactions and rewards are.
C1_MissingHeightOrTimeReturnsError ==
    (Called /\ ~HeightAndTime(Input)) => ReturnsError(Outcome)

-----------------------------------------------------------------------------
(* C2 *)

\* C2: with height and time present, signatures that fail validation never abort the
\* decoding: every complete envelope is decoded, its reported signature is the first
\* surviving one, and an envelope none of whose signatures survives causes no
\* index-out-of-range failure.
C2_MalformedSignatureIsSkipped ==
    (Called /\ HeightAndTime(Input) /\ ErrorsAndHashesWellFormed(Input)) =>
        /\ ~IsPanic(Outcome)
        /\ \A k \in 1..Len(CompleteEnvelopesOf(Input)) :
              LET survivors ==
                    {i \in 1..Len(WireSignatures(CompleteEnvelopesOf(Input)[k])) :
                        WireSignatures(CompleteEnvelopesOf(Input)[k])[i].len = SIGNATURE_BYTES}
              IN  survivors # {} =>
                    Produced.transactions[k].signature =
                        <<"base58", WireSignatures(CompleteEnvelopesOf(Input)[k])[Min(survivors)].bytes>>

-----------------------------------------------------------------------------
(* C3 *)

\* C3: with height and time present the block decodes, and its transactions are exactly
\* the complete envelopes of the update, one output transaction each, in input order.
C3_TransactionsAreTheCompleteEnvelopes ==
    (Called /\ HeightAndTime(Input) /\ ErrorsAndHashesWellFormed(Input)) =>
        /\ Returned
        /\ Len(Produced.transactions) = Len(CompleteEnvelopesOf(Input))
        /\ \A k \in 1..Len(CompleteEnvelopesOf(Input)) :
              /\ Produced.transactions[k].err = 
                    (IF Unwrap(CompleteEnvelopesOf(Input)[k].meta).err = None THEN None
                     ELSE Some(Unwrap(Unwrap(CompleteEnvelopesOf(Input)[k].meta).err).code))
              /\ \E i \in 1..Len(WireSignatures(CompleteEnvelopesOf(Input)[k])) :
                    Produced.transactions[k].signature =
                        <<"base58", WireSignatures(CompleteEnvelopesOf(Input)[k])[i].bytes>>

-----------------------------------------------------------------------------
(* C4 *)

\* C4: in every decoded transaction the readable and the writable account sets are
\* disjoint and their union is the set of the message's account keys.
C4_ReadableWritablePartitionKeys ==
    Returned =>
        \A k \in 1..Len(Produced.transactions) :
            LET t == Produced.transactions[k]
            IN  /\ Range(t.readable_accounts) \cap Range(t.writable_accounts) = {}
                /\ Range(t.readable_accounts) \cup Range(t.writable_accounts)
                      = Range(t.message[2].account_keys)

-----------------------------------------------------------------------------
(* C5 *)

\* the wire instructions of the update's only transaction that target the compute-budget
\* program and carry the given instruction
BudgetInstructions(tag) ==
    LET m == WireMessage(Input.transactions[1])
    IN  {k \in 1..Len(m.instructions) :
            /\ m.instructions[k].program_id_index < Len(m.account_keys)
            /\ m.account_keys[m.instructions[k].program_id_index + 1] = Key(ComputeBudgetId)
            /\ m.instructions[k].data.tag = tag}

ProgramIndexesInRange ==
    LET m == WireMessage(Input.transactions[1])
    IN  \A k \in 1..Len(m.instructions) :
            m.instructions[k].program_id_index < Len(m.account_keys)

FirstDeprecated ==
    WireMessage(Input.transactions[1]).instructions[Min(BudgetInstructions("RequestUnitsDeprecated"))].data

\* C5: the legacy fee derived from the first deprecated request-units instruction is
\* (units * 1000) / additional_fee, truncated, for every 32-bit units, and absent when
\* additional_fee = 0.  It is read where no set-compute-unit-price instruction hides it.
C5_LegacyFeeIsUnitsTimes1000OverFee ==
    (Called /\ ProgramIndexesInRange
            /\ BudgetInstructions("RequestUnitsDeprecated") # {}
            /\ BudgetInstructions("SetComputeUnitPrice") = {}) =>
        /\ Returned
        /\ Produced.transactions[1].prioritization_fees =
              (IF FirstDeprecated.additional_fee > 0
               THEN Some(DivWide(Mul1000(FirstDeprecated.units), FirstDeprecated.additional_fee))
               ELSE None)

-----------------------------------------------------------------------------
(* C6 *)

\* the instructions of a reconstructed message that target the compute-budget program
\* and carry the given instruction
DecodedBudgetInstructions(msg, tag) ==
    {k \in 1..Len(msg.instructions) :
        /\ msg.account_keys[msg.instructions[k].program_id_index + 1] = ComputeBudgetId
        /\ msg.instructions[k].data.tag = tag}

\* C6: the prioritization fee of a decoded transaction is the value of the first
\* set-compute-unit-price instruction if there is one, wherever the deprecated
\* instruction stands; otherwise the fee the decoder derived from the first deprecated
\* instruction, if that one has a nonzero additional fee; otherwise absent.
C6_PriceInstructionWinsOverLegacyFee ==
    Returned =>
        \A k \in 1..Len(Produced.transactions) :
            LET t == Produced.transactions[k]
                msg == t.message[2]
                prices == DecodedBudgetInstructions(msg, "SetComputeUnitPrice")
                deprecated == DecodedBudgetInstructions(msg, "RequestUnitsDeprecated")
                derived == legacy_compute_budget(msg, overflow_checks).value
            IN  t.prioritization_fees =
                  (IF prices # {}
                   THEN Some(U64(msg.instructions[Min(prices)].data.value))
                   ELSE IF deprecated # {}
                           /\ msg.instructions[Min(deprecated)].data.additional_fee > 0
                   THEN Unwrap(derived).fee
                   ELSE None)

\* a decoded transaction whose deprecated instruction, with a nonzero fee, comes before
\* its set-compute-unit-price instruction, and whose fee is the price
C6_Witness ==
    /\ Returned
    /\ Len(Produced.transactions) = 1
    /\ LET msg == Produced.transactions[1].message[2]
       IN  /\ Len(msg.instructions) = 2
           /\ msg.instructions[1].program_id_index = 1
           /\ msg.instructions[1].data = Data("RequestUnitsDeprecated", 1000, 500, 0)
           /\ msg.instructions[2].program_id_index = 1
           /\ msg.instructions[2].data = Data("SetComputeUnitPrice", 0, 0, 7)
           /\ Produced.transactions[1].prioritization_fees = Some(U64(7))

-----------------------------------------------------------------------------
(* C7 *)

\* C7: the leader identity of a decoded block is the key of the first reward, in wire
\* order, whose wire type is fee; it is unset without a rewards wrapper, with an empty
\* list, and with no fee reward (an unspecified type never sets it).
C7_LeaderIsFirstFeeReward ==
    Returned =>
        Produced.leader_id =
            (IF Input.rewards = None THEN None
             ELSE LET wire == Unwrap(Input.rewards).rewards
                      fees == {k \in 1..Len(wire) : wire[k].reward_type = 1}
                  IN  IF fees = {} THEN None ELSE Some(wire[Min(fees)].pubkey))

\* a decoded block with two fee rewards of different keys behind a reward of another type
C7_Witness ==
    /\ Returned
    /\ IsSome(Input.rewards)
    /\ Unwrap(Input.rewards).rewards = <<Reward("V1", 2), Reward("V2", 1), Reward("V1", 1)>>
    /\ Produced.leader_id = Some("V2")

-----------------------------------------------------------------------------
(* C9 *)

\* C9: no decoded transaction carries a header count that is a wire value above 255
\* reduced modulo 256.
C9_HeaderCountsAbove255AreNotWrapped ==
    Returned =>
        \A k \in 1..Len(Produced.transactions) :
            LET wire == Unwrap(WireMessage(CompleteEnvelopesOf(Input)[k]).header)
                header == Produced.transactions[k].message[2].header
            IN  /\ wire.num_required_signatures > 255 =>
                      header.num_required_signatures # wire.num_required_signatures % 256
                /\ wire.num_readonly_signed_accounts > 255 =>
                      header.num_readonly_signed_accounts # wire.num_readonly_signed_accounts % 256
                /\ wire.num_readonly_unsigned_accounts > 255 =>
                      header.num_readonly_unsigned_accounts
                          # wire.num_readonly_unsigned_accounts % 256

-----------------------------------------------------------------------------
(* C8 *)

TaskNames == [k \in 1..Len(endpoint_tasks) |-> endpoint_tasks[k].name]

\* C8: with an empty filter list the bundle's account-stream slot is absent, no account
\* stream is requested and exactly the four handles of the multiplexers and the pollers
\* are returned; with a non-empty one the slot is present and the account task is the
\* fifth handle.  Every task spawned or received is in the returned list.
C8_ComposeReturnsBundleAndAllTasks ==
    IsSome(streamers) =>
        /\ Range(endpoint_tasks) = spawned
        /\ Cardinality(spawned) = Len(endpoint_tasks)
        /\ Unwrap(compose_args).accounts_filter = <<>> =>
              /\ Unwrap(streamers).processed_account_stream = None
              /\ \A t \in spawned : t.name # "account_streaming"
              /\ TaskNames = <<"multiplex_processed_slots", "multiplex_blocks",
                               "poll_cluster_info", "poll_vote_accounts">>
        /\ Unwrap(compose_args).accounts_filter # <<>> =>
              /\ IsSome(Unwrap(streamers).processed_account_stream)
              /\ TaskNames = <<"multiplex_processed_slots", "multiplex_blocks",
                               "poll_cluster_info", "poll_vote_accounts",
                               "account_streaming">>

\* a call with two filters and two sources that returned five handles
C8_Witness ==
    /\ IsSome(streamers)
    /\ Unwrap(compose_args).accounts_filter = <<"filter1", "filter2">>
    /\ Unwrap(compose_args).grpc_sources = <<"sourceA", "sourceB">>
    /\ Len(endpoint_tasks) = 5
    /\ IsSome(Unwrap(streamers).processed_account_stream)

-----------------------------------------------------------------------------
(* C10 *)

\* the capacity the claim names
ClaimedCapacity == 10

\* the position a log leads to from `pos`: an item must be the one published right after
\* the position, a lag report moves the position by the number of values it reports;
\* -1 when an item is out of order, repeated or follows an unreported gap
RECURSIVE Replay(_, _)
Replay(pos, log) ==
    IF log = <<>> THEN pos
    ELSE IF Head(log)[1] = "Item"
    THEN (IF Head(log)[2] = pos + 1 THEN Replay(pos + 1, Tail(log)) ELSE -1)
    ELSE (IF Head(log)[2] > 0 THEN Replay(pos + Head(log)[2], Tail(log)) ELSE -1)

Subscribed == {<<ch, c>> \in ChannelNames \X {"c1", "c2", "c3"} :
                  IsSome(streamers) /\ c \in Subscribers[ch] /\ IsSome(receivers[ch][c])}

\* what every state shows: a publish step is enabled whatever the consumers have done,
\* and what a consumer has observed is the publish order, gaps reported as lag
BroadcastState ==
    /\ (IsSome(streamers) /\ TotalSent < MaxPublished) =>
          \A ch \in ChannelNames : ENABLED Publish(ch)
    /\ \A s \in Subscribed :
          LET r == Unwrap(receivers[s[1]][s[2]])
          IN  Replay(r.start, r.log) = r.next

\* what every step shows: a receive by a consumer at most the capacity behind returns
\* the value published right after the last one it saw
BroadcastStep ==
    \A s \in Subscribed :
        LET r == Unwrap(receivers[s[1]][s[2]])
        IN  (receivers'[s[1]][s[2]] # receivers[s[1]][s[2]]
                /\ channels[s[1]].sent - r.next <= ClaimedCapacity) =>
                Unwrap(receivers'[s[1]][s[2]]).log = Append(r.log, <<"Item", r.next + 1>>)

====
